---- MODULE Spec2Model ----
(***************************************************************************)
(* Model of lib/ethclient/engineclient.go: the Engine API client.          *)
(*                                                                         *)
(* Part 1 (Spec): the three capabilities NewPayloadV3, ForkchoiceUpdatedV3 *)
(* and GetPayloadV3, each split at its one blocking CallContext: the Call  *)
(* action runs the handler up to the request being sent, the Return action *)
(* takes the transport's (decoded response, error) pair and runs the rest  *)
(* of the handler, deferred latency observation included.                  *)
(*                                                                         *)
(* Part 2: ConvertExecutableDataToRethPayloadV3 over an explicit heap of   *)
(* Go objects, so that sharing of backing storage between the canonical    *)
(* payload and the wire payload is a fact about addresses. SpecPure applies*)
(* the converter to every payload of the input set; SpecTx adds the writes *)
(* to transactions, SpecWd the writes to withdrawals; SpecConv has the     *)
(* writes to every field.                                                  *)
(***************************************************************************)
EXTENDS Integers, Sequences, FiniteSets, TLC

VARIABLES
    pc,         \* pc[p]: "idle" | "awaitRPC" | "returned", position of caller p
    cap,        \* cap[p]: the capability caller p invoked last
    rsp,        \* rsp[p]: the response CallContext decoded for p's call
    terr,       \* terr[p]: the error CallContext returned for p's call
    ret,        \* ret[p]: the (response, error) pair the capability returned
    sent,       \* sent[p]: the JSON-RPC requests p's call issued, in order
    warns,      \* the log.Warn records written so far
    latencyCnt, \* latency observations per <<chain, endpoint>>
    errorCnt,   \* error counter per <<chain, endpoint>>
    heap,       \* Go heap: heap[a] is the object at address a
    ed,         \* the caller's engine.ExecutableData (struct value)
    wire,       \* the RethPayloadV3 values produced so far, in order
    nmut        \* number of writes made through the payloads

vars == <<pc, cap, rsp, terr, ret, sent, warns, latencyCnt, errorCnt,
          heap, ed, wire, nmut>>

callVars == <<pc, cap, rsp, terr, ret, sent, warns, latencyCnt, errorCnt>>
convVars == <<heap, ed, wire, nmut>>

(***************************************************************************)
(* Bounds of the model.                                                    *)
(***************************************************************************)
NumCallers == 2 \* goroutines calling the client, one call each
MaxTx == 2      \* transactions in a payload
MaxWd == 1      \* withdrawals in a payload
MaxConv == 2    \* conversions of the payload
MaxMut == 1     \* writes after a conversion
MaxSet == 2     \* field groups an initial payload sets

Callers == 1..NumCallers

(***************************************************************************)
(* Constants of the program and of go-ethereum's beacon/engine package.    *)
(***************************************************************************)
VALID == "VALID"
INVALID == "INVALID"
SYNCING == "SYNCING"
ACCEPTED == "ACCEPTED"

newPayloadV3 == "engine_newPayloadV3"
forkchoiceUpdatedV3 == "engine_forkchoiceUpdatedV3"
getPayloadV3 == "engine_getPayloadV3"

NewPayloadEndpoint == "new_payload_v3"
ForkchoiceEndpoint == "forkchoice_updated_v3"
GetPayloadEndpoint == "get_payload_v3"
Endpoints == {NewPayloadEndpoint, ForkchoiceEndpoint, GetPayloadEndpoint}

\* c.chain: NewAuthClient builds the Wrapper with the chain name "engine".
Chain == "engine"

(***************************************************************************)
(* Values exchanged with the transport.                                    *)
(***************************************************************************)
NilErr == "<nil>"
NilPtr == "<nil>"

\* What the decoded Status string may hold: the four protocol statuses, the
\* empty string of a response that was never decoded, and a string that is
\* no status (the map lookup is case-sensitive).
Statuses == {VALID, INVALID, SYNCING, ACCEPTED, "", "valid"}

\* Errors CallContext may return: none, a cancelled context, a refused dial.
TransportErrs == {NilErr, "context canceled", "connection refused"}

\* engine.PayloadStatusV1 (Status, LatestValidHash, ValidationError).
ZeroPayloadStatus ==
    [Status |-> "", LatestValidHash |-> NilPtr, ValidationError |-> NilPtr]

PayloadStatuses ==
    { [Status |-> s, LatestValidHash |-> d[1], ValidationError |-> d[2]] :
        s \in Statuses, d \in {<<NilPtr, NilPtr>>, <<"0xh1", "bad block">>} }

\* engine.ForkChoiceResponse (PayloadStatus, PayloadID).
ZeroForkChoiceResponse ==
    [PayloadStatus |-> ZeroPayloadStatus, PayloadID |-> NilPtr]

\* A response comes bare or with every optional part set.
ForkChoiceResponses ==
    { [PayloadStatus |-> ps,
       PayloadID |-> IF ps.LatestValidHash = NilPtr THEN NilPtr ELSE "0x01"] :
        ps \in PayloadStatuses }

\* engine.ExecutionPayloadEnvelope, as far as decoding got.
ZeroEnvelope == [ExecutionPayload |-> NilPtr, BlockValue |-> NilPtr]

Envelopes ==
    { ZeroEnvelope,
      [ExecutionPayload |-> "payload", BlockValue |-> NilPtr],
      [ExecutionPayload |-> "payload", BlockValue |-> "0x10"] }

\* The *ExecutionPayloadEnvelope GetPayloadV3 returns: nil, or &resp.
NilEnvelope == [isNil |-> TRUE, val |-> ZeroEnvelope]
EnvelopePtr(e) == [isNil |-> FALSE, val |-> e]

\* Go error values. NoError is the nil error; errors.Wrap(err, msg) keeps err
\* as its cause; errors.New(msg, attrs...) has no cause and carries attrs.
NoError == [kind |-> "nil", msg |-> "", cause |-> NilErr, attrs |-> {}]
WrapError(err, msg) == [kind |-> "wrap", msg |-> msg, cause |-> err, attrs |-> {}]
NewError(msg, attrs) == [kind |-> "new", msg |-> msg, cause |-> NilErr, attrs |-> attrs]

\* A Go map[string]bool lookup: a missing key reads as false.
MapLookup(m, k) == IF k \in DOMAIN m THEN m[k] ELSE FALSE

(***************************************************************************)
(* NewPayloadV3, after CallContext returned (resp, err).                   *)
(***************************************************************************)
\* The status map of NewPayloadV3 without the ACCEPTED key.
NewPayloadV3IsStatusOkNoAccepted(status) ==
    MapLookup([k \in {VALID, INVALID, SYNCING} |-> TRUE], status.Status)

NewPayloadV3IsStatusOk(status) ==
    MapLookup([k \in {VALID, INVALID, SYNCING, ACCEPTED} |-> TRUE], status.Status)

\* NewPayloadV3 returning the decoded response next to the error.
NewPayloadV3OutcomeRespWithErr(resp, err) ==
    IF NewPayloadV3IsStatusOk(resp)
    THEN [resp |-> resp, err |-> NoError,
          warn |-> IF err # NilErr
                   THEN {[msg |-> "Ignoring new_payload_v3 error with proper response",
                          err |-> err, status |-> resp.Status]}
                   ELSE {},
          incError |-> 0]
    ELSE IF err # NilErr
    THEN [resp |-> resp, err |-> WrapError(err, "rpc new payload"),
          warn |-> {}, incError |-> 1]
    ELSE [resp |-> resp,
          err |-> NewError("nil error and unknown status", {<<"status", resp.Status>>}),
          warn |-> {}, incError |-> 1]

\* NewPayloadV3 with the transport error tested before the status.
NewPayloadV3OutcomeErrFirst(resp, err) ==
    IF err # NilErr
    THEN [resp |-> ZeroPayloadStatus, err |-> WrapError(err, "rpc new payload"),
          warn |-> {}, incError |-> 1]
    ELSE IF NewPayloadV3IsStatusOk(resp)
    THEN [resp |-> resp, err |-> NoError, warn |-> {}, incError |-> 0]
    ELSE [resp |-> ZeroPayloadStatus,
          err |-> NewError("nil error and unknown status", {<<"status", resp.Status>>}),
          warn |-> {}, incError |-> 1]

\* The outcome of lines 199-213: the returned pair, the warnings logged and
\* whether incError ran.
NewPayloadV3Outcome(resp, err) ==
    IF NewPayloadV3IsStatusOk(resp)
    THEN [resp |-> resp, err |-> NoError,
          warn |-> IF err # NilErr
                   THEN {[msg |-> "Ignoring new_payload_v3 error with proper response",
                          err |-> err, status |-> resp.Status]}
                   ELSE {},
          incError |-> 0]
    ELSE IF err # NilErr
    THEN [resp |-> ZeroPayloadStatus, err |-> WrapError(err, "rpc new payload"),
          warn |-> {}, incError |-> 1]
    ELSE [resp |-> ZeroPayloadStatus,
          err |-> NewError("nil error and unknown status", {<<"status", resp.Status>>}),
          warn |-> {}, incError |-> 1]

(***************************************************************************)
(* ForkchoiceUpdatedV3, after CallContext returned (resp, err).            *)
(***************************************************************************)
\* The status map of ForkchoiceUpdatedV3 with ACCEPTED taken for valid.
ForkchoiceUpdatedV3IsStatusOkAccepted(resp) ==
    MapLookup([k \in {VALID, INVALID, SYNCING, ACCEPTED} |-> TRUE],
              resp.PayloadStatus.Status)

ForkchoiceUpdatedV3IsStatusOk(resp) ==
    MapLookup([k \in {VALID, INVALID, SYNCING, ACCEPTED} |-> k # ACCEPTED],
              resp.PayloadStatus.Status)

\* ForkchoiceUpdatedV3 without the "else if err != nil" branch.
ForkchoiceUpdatedV3OutcomeNoWrap(resp, err) ==
    IF ForkchoiceUpdatedV3IsStatusOk(resp)
    THEN [resp |-> resp, err |-> NoError,
          warn |-> IF err # NilErr
                   THEN {[msg |-> "Ignoring forkchoice_updated_v3 error with proper response",
                          err |-> err, status |-> resp.PayloadStatus.Status]}
                   ELSE {},
          incError |-> 0]
    ELSE [resp |-> ZeroForkChoiceResponse,
          err |-> NewError("nil error and unknown status",
                           {<<"status", resp.PayloadStatus.Status>>}),
          warn |-> {}, incError |-> 1]

\* ForkchoiceUpdatedV3 with the status attached to the wrapped error as well.
ForkchoiceUpdatedV3OutcomeWrapStatus(resp, err) ==
    IF ForkchoiceUpdatedV3IsStatusOk(resp)
    THEN [resp |-> resp, err |-> NoError,
          warn |-> IF err # NilErr
                   THEN {[msg |-> "Ignoring forkchoice_updated_v3 error with proper response",
                          err |-> err, status |-> resp.PayloadStatus.Status]}
                   ELSE {},
          incError |-> 0]
    ELSE IF err # NilErr
    THEN [resp |-> ZeroForkChoiceResponse,
          err |-> [WrapError(err, "rpc forkchoice updated v3")
                     EXCEPT !.attrs = {<<"status", resp.PayloadStatus.Status>>}],
          warn |-> {}, incError |-> 1]
    ELSE [resp |-> ZeroForkChoiceResponse,
          err |-> NewError("nil error and unknown status",
                           {<<"status", resp.PayloadStatus.Status>>}),
          warn |-> {}, incError |-> 1]

ForkchoiceUpdatedV3Outcome(resp, err) ==
    IF ForkchoiceUpdatedV3IsStatusOk(resp)
    THEN [resp |-> resp, err |-> NoError,
          warn |-> IF err # NilErr
                   THEN {[msg |-> "Ignoring forkchoice_updated_v3 error with proper response",
                          err |-> err, status |-> resp.PayloadStatus.Status]}
                   ELSE {},
          incError |-> 0]
    ELSE IF err # NilErr
    THEN [resp |-> ZeroForkChoiceResponse,
          err |-> WrapError(err, "rpc forkchoice updated v3"),
          warn |-> {}, incError |-> 1]
    ELSE [resp |-> ZeroForkChoiceResponse,
          err |-> NewError("nil error and unknown status",
                           {<<"status", resp.PayloadStatus.Status>>}),
          warn |-> {}, incError |-> 1]

(***************************************************************************)
(* GetPayloadV3, after CallContext returned (resp, err).                   *)
(***************************************************************************)
\* GetPayloadV3 taking a decoded payload for success whatever the error.
GetPayloadV3OutcomeDecoded(resp, err) ==
    IF err # NilErr /\ resp.ExecutionPayload = NilPtr
    THEN [resp |-> NilEnvelope, err |-> WrapError(err, "rpc get payload v3"),
          warn |-> {}, incError |-> 1]
    ELSE [resp |-> EnvelopePtr(resp), err |-> NoError, warn |-> {}, incError |-> 0]

GetPayloadV3Outcome(resp, err) ==
    IF err # NilErr
    THEN [resp |-> NilEnvelope, err |-> WrapError(err, "rpc get payload v3"),
          warn |-> {}, incError |-> 1]
    ELSE [resp |-> EnvelopePtr(resp), err |-> NoError, warn |-> {}, incError |-> 0]

(***************************************************************************)
(* The Go heap. An address is an index into heap; NilAddr is the nil       *)
(* pointer. A cell is a backing array (a sequence of bytes, of slice       *)
(* headers or of pointers) or a pointed-to object (a record). A slice      *)
(* value is its header [ptr, len]; the nil slice has ptr = NilAddr.        *)
(***************************************************************************)
NilAddr == 0
NilSlice == [ptr |-> NilAddr, len |-> 0]

Alloc(h, obj) == [heap |-> Append(h, obj), val |-> Len(h) + 1]

\* make([]T, n) / a slice literal: a fresh backing array holding elems.
MakeSlice(h, elems) ==
    [heap |-> Append(h, elems), val |-> [ptr |-> Len(h) + 1, len |-> Len(elems)]]

\* The elements a slice header gives access to.
Elems(h, s) == IF s.ptr = NilAddr THEN <<>> ELSE SubSeq(h[s.ptr], 1, s.len)

(***************************************************************************)
(* ConvertExecutableDataToRethPayloadV3 and its helpers; each returns the  *)
(* heap after its allocations and the value it computed.                   *)
(***************************************************************************)
\* An optional field copied without the nil test: absent becomes a present zero.
CopyOptionalAlways(h, p) ==
    Alloc(h, [val |-> IF p # NilAddr THEN h[p].val ELSE 0])

\* new(big.Int).Set(p) / new(uint64) with *q = *p, under "if p != nil".
CopyOptional(h, p) ==
    IF p # NilAddr THEN Alloc(h, [val |-> h[p].val])
    ELSE [heap |-> h, val |-> NilAddr]

\* append([]byte(nil), tx...): nothing is allocated for no bytes.
AppendToNil(h, tx) ==
    IF tx.len = 0 THEN [heap |-> h, val |-> NilSlice]
    ELSE MakeSlice(h, Elems(h, tx))

RECURSIVE CopyTxLoop(_, _, _, _)
\* The range loop of copyTransactions from index i on; copied is the address
\* of the new backing array.
CopyTxLoop(h, txs, copied, i) ==
    IF i > Len(txs) THEN h
    ELSE IF txs[i].ptr # NilAddr
         THEN LET c == AppendToNil(h, txs[i])
              IN CopyTxLoop([c.heap EXCEPT ![copied][i] = c.val], txs, copied, i + 1)
         ELSE CopyTxLoop(h, txs, copied, i + 1)

\* copyTransactions copying the slice headers only: copied[i] = tx.
copyTransactionsShallow(h, transactions) ==
    IF transactions.ptr = NilAddr THEN MakeSlice(h, <<>>)
    ELSE MakeSlice(h, Elems(h, transactions))

copyTransactions(h, transactions) ==
    IF transactions.ptr = NilAddr THEN MakeSlice(h, <<>>)
    ELSE LET copied == MakeSlice(h, [i \in 1..transactions.len |-> NilSlice])
         IN [heap |-> CopyTxLoop(copied.heap, Elems(h, transactions), copied.val.ptr, 1),
             val |-> copied.val]

RECURSIVE CopyWdLoopDeep(_, _, _, _)
\* A range loop that copies each record: copied[i] = &(*withdrawal).
CopyWdLoopDeep(h, wds, copied, i) ==
    IF i > Len(wds) THEN h
    ELSE IF wds[i] # NilAddr
         THEN LET c == Alloc(h, h[wds[i]])
              IN CopyWdLoopDeep([c.heap EXCEPT ![copied][i] = c.val], wds, copied, i + 1)
         ELSE CopyWdLoopDeep(h, wds, copied, i + 1)

\* copyWithdrawals copying the records as well, as its comment has it.
copyWithdrawalsDeep(h, withdrawals) ==
    IF withdrawals.ptr = NilAddr THEN MakeSlice(h, <<>>)
    ELSE LET copied == MakeSlice(h, [i \in 1..withdrawals.len |-> NilAddr])
         IN [heap |-> CopyWdLoopDeep(copied.heap, Elems(h, withdrawals), copied.val.ptr, 1),
             val |-> copied.val]

\* copyWithdrawals returning nil for a nil source instead of the empty literal.
copyWithdrawalsKeepNil(h, withdrawals) ==
    IF withdrawals.ptr = NilAddr THEN [heap |-> h, val |-> NilSlice]
    ELSE MakeSlice(h, Elems(h, withdrawals))

copyWithdrawals(h, withdrawals) ==
    IF withdrawals.ptr = NilAddr THEN MakeSlice(h, <<>>)
    ELSE MakeSlice(h, [i \in 1..withdrawals.len |->
                          IF Elems(h, withdrawals)[i] # NilAddr
                          THEN Elems(h, withdrawals)[i] ELSE NilAddr])

\* The converter with StateRoot and ReceiptsRoot read from each other's field.
ConvertSwappedRoots(h, e) ==
    LET baseFee == CopyOptional(h, e.BaseFeePerGas)
        blobGasUsed == CopyOptional(baseFee.heap, e.BlobGasUsed)
        excessBlobGas == CopyOptional(blobGasUsed.heap, e.ExcessBlobGas)
        txs == copyTransactions(excessBlobGas.heap, e.Transactions)
        wds == copyWithdrawals(txs.heap, e.Withdrawals)
    IN [heap |-> wds.heap,
        val |-> [e EXCEPT !.StateRoot = e.ReceiptsRoot,
                          !.ReceiptsRoot = e.StateRoot,
                          !.BaseFeePerGas = baseFee.val,
                          !.Transactions = txs.val,
                          !.Withdrawals = wds.val,
                          !.BlobGasUsed = blobGasUsed.val,
                          !.ExcessBlobGas = excessBlobGas.val]]

ConvertExecutableDataToRethPayloadV3(h, e) ==
    LET baseFee == CopyOptional(h, e.BaseFeePerGas)
        blobGasUsed == CopyOptional(baseFee.heap, e.BlobGasUsed)
        excessBlobGas == CopyOptional(blobGasUsed.heap, e.ExcessBlobGas)
        txs == copyTransactions(excessBlobGas.heap, e.Transactions)
        wds == copyWithdrawals(txs.heap, e.Withdrawals)
    IN [heap |-> wds.heap,
        val |-> [ParentHash |-> e.ParentHash,
                 FeeRecipient |-> e.FeeRecipient,
                 StateRoot |-> e.StateRoot,
                 ReceiptsRoot |-> e.ReceiptsRoot,
                 LogsBloom |-> e.LogsBloom,
                 Random |-> e.Random,
                 Number |-> e.Number,
                 GasLimit |-> e.GasLimit,
                 GasUsed |-> e.GasUsed,
                 Timestamp |-> e.Timestamp,
                 ExtraData |-> e.ExtraData,
                 BaseFeePerGas |-> baseFee.val,
                 BlockHash |-> e.BlockHash,
                 Transactions |-> txs.val,
                 Withdrawals |-> wds.val,
                 BlobGasUsed |-> blobGasUsed.val,
                 ExcessBlobGas |-> excessBlobGas.val,
                 ExecutionWitness |-> e.ExecutionWitness]]

(***************************************************************************)
(* What a payload holds, read through the heap: the observable value of    *)
(* each field, with nil and empty kept apart.                              *)
(***************************************************************************)
BytesVal(h, s) == [isNil |-> s.ptr = NilAddr, bytes |-> Elems(h, s)]

PtrVal(h, a) ==
    IF a = NilAddr THEN [present |-> FALSE, val |-> 0]
    ELSE [present |-> TRUE, val |-> h[a].val]

TxVal(h, p) ==
    [isNil |-> p.Transactions.ptr = NilAddr,
     elems |-> [i \in 1..p.Transactions.len |-> BytesVal(h, Elems(h, p.Transactions)[i])]]

WdVal(h, p) ==
    [isNil |-> p.Withdrawals.ptr = NilAddr,
     elems |-> [i \in 1..p.Withdrawals.len |-> PtrVal(h, Elems(h, p.Withdrawals)[i])]]

HeaderFields ==
    {"ParentHash", "FeeRecipient", "StateRoot", "ReceiptsRoot", "Random", "Number",
     "GasLimit", "GasUsed", "Timestamp", "BlockHash"}

\* The header of section 3 of the specification: the scalar fields, the two
\* byte-slice fields and the base fee.
HeaderVal(h, p) ==
    [scalars |-> [f \in HeaderFields |-> p[f]],
     LogsBloom |-> BytesVal(h, p.LogsBloom),
     ExtraData |-> BytesVal(h, p.ExtraData),
     BaseFeePerGas |-> PtrVal(h, p.BaseFeePerGas)]

PayloadVal(h, p) ==
    [header |-> HeaderVal(h, p),
     Transactions |-> TxVal(h, p),
     Withdrawals |-> WdVal(h, p),
     BlobGasUsed |-> PtrVal(h, p.BlobGasUsed),
     ExcessBlobGas |-> PtrVal(h, p.ExcessBlobGas),
     ExecutionWitness |-> PtrVal(h, p.ExecutionWitness)]

(***************************************************************************)
(* The payloads a caller may hold. A payload is described by the value of  *)
(* each field; BuildPayload lays that value out on the heap the way the    *)
(* caller's own construction would, every object in storage of its own.    *)
(***************************************************************************)
ByteVals == {170, 187}
NumVals == {0, 5}

RECURSIVE SeqsUpTo(_, _)
\* The sequences over S of length at most n.
SeqsUpTo(S, n) ==
    IF n = 0 THEN {<<>>}
    ELSE LET shorter == SeqsUpTo(S, n - 1)
         IN shorter \cup {Append(q, x) : q \in {r \in shorter : Len(r) = n - 1}, x \in S}

ByteSliceVals ==
    {[isNil |-> TRUE, bytes |-> <<>>], [isNil |-> FALSE, bytes |-> <<>>]}
        \cup {[isNil |-> FALSE, bytes |-> <<b>>] : b \in ByteVals}

OptionalVals ==
    {[present |-> FALSE, val |-> 0]} \cup {[present |-> TRUE, val |-> v] : v \in NumVals}

TxVals ==
    {[isNil |-> TRUE, elems |-> <<>>]}
        \cup {[isNil |-> FALSE, elems |-> q] : q \in SeqsUpTo(ByteSliceVals, MaxTx)}

WdVals ==
    {[isNil |-> TRUE, elems |-> <<>>]}
        \cup {[isNil |-> FALSE, elems |-> q] :
                q \in SeqsUpTo({[present |-> FALSE, val |-> 0], [present |-> TRUE, val |-> 5]},
                               MaxWd)}

\* Every scalar header field holds a value of its own, so that a field read
\* from the wrong place shows.
ScalarVals ==
    { [f \in HeaderFields |->
         CASE f = "ParentHash" -> 11 + n
           [] f = "FeeRecipient" -> 21 + n
           [] f = "StateRoot" -> 31 + n
           [] f = "ReceiptsRoot" -> 41 + n
           [] f = "Random" -> 51 + n
           [] f = "Number" -> 61 + n
           [] f = "GasLimit" -> 71 + n
           [] f = "GasUsed" -> 81 + n
           [] f = "Timestamp" -> 91 + n
           [] f = "BlockHash" -> 101 + n] : n \in {0} }

\* Present and absent byte-slice fields and witness.
AuxVals ==
    { [LogsBloom |-> [isNil |-> TRUE, bytes |-> <<>>],
       ExtraData |-> [isNil |-> TRUE, bytes |-> <<>>],
       ExecutionWitness |-> [present |-> FALSE, val |-> 0]],
      [LogsBloom |-> [isNil |-> FALSE, bytes |-> <<170>>],
       ExtraData |-> [isNil |-> FALSE, bytes |-> <<187>>],
       ExecutionWitness |-> [present |-> TRUE, val |-> 5]] }

AllPayloadVals ==
    { [header |-> [scalars |-> sc, LogsBloom |-> aux.LogsBloom,
                   ExtraData |-> aux.ExtraData, BaseFeePerGas |-> bf],
       Transactions |-> tx, Withdrawals |-> wd,
       BlobGasUsed |-> bg[1], ExcessBlobGas |-> bg[2],
       ExecutionWitness |-> aux.ExecutionWitness] :
        sc \in ScalarVals, aux \in AuxVals, bf \in OptionalVals, tx \in TxVals,
        wd \in WdVals, bg \in OptionalVals \X OptionalVals }

\* The field groups of v that differ from the zero value of the struct.
SetGroups(v) ==
    {g \in {"aux", "baseFee", "txs", "wds", "blobGasUsed", "excessBlobGas"} :
        CASE g = "aux" -> ~v.header.LogsBloom.isNil
          [] g = "baseFee" -> v.header.BaseFeePerGas.present
          [] g = "txs" -> ~v.Transactions.isNil
          [] g = "wds" -> ~v.Withdrawals.isNil
          [] g = "blobGasUsed" -> v.BlobGasUsed.present
          [] g = "excessBlobGas" -> v.ExcessBlobGas.present}

PayloadVals == {v \in AllPayloadVals : Cardinality(SetGroups(v)) <= MaxSet}

BuildBytes(h, v) ==
    IF v.isNil THEN [heap |-> h, val |-> NilSlice] ELSE MakeSlice(h, v.bytes)

BuildOptional(h, v) ==
    IF v.present THEN Alloc(h, [val |-> v.val]) ELSE [heap |-> h, val |-> NilAddr]

RECURSIVE BuildElems(_, _, _, _)
\* Lays out elems[i..] on the heap and returns the heap and the values
\* (slice headers when bytes, pointers otherwise) laid out so far.
BuildElems(h, elems, i, isBytes) ==
    IF i > Len(elems) THEN [heap |-> h, val |-> <<>>]
    ELSE LET one == IF isBytes THEN BuildBytes(h, elems[i]) ELSE BuildOptional(h, elems[i])
             rest == BuildElems(one.heap, elems, i + 1, isBytes)
         IN [heap |-> rest.heap, val |-> <<one.val>> \o rest.val]

BuildSlice(h, v, isBytes) ==
    IF v.isNil THEN [heap |-> h, val |-> NilSlice]
    ELSE LET es == BuildElems(h, v.elems, 1, isBytes)
         IN MakeSlice(es.heap, es.val)

BuildPayload(h, v) ==
    LET lb == BuildBytes(h, v.header.LogsBloom)
        xd == BuildBytes(lb.heap, v.header.ExtraData)
        bf == BuildOptional(xd.heap, v.header.BaseFeePerGas)
        tx == BuildSlice(bf.heap, v.Transactions, TRUE)
        wd == BuildSlice(tx.heap, v.Withdrawals, FALSE)
        bg == BuildOptional(wd.heap, v.BlobGasUsed)
        eb == BuildOptional(bg.heap, v.ExcessBlobGas)
        ew == BuildOptional(eb.heap, v.ExecutionWitness)
        sc == v.header.scalars
    IN [heap |-> ew.heap,
        val |-> [ParentHash |-> sc.ParentHash,
                 FeeRecipient |-> sc.FeeRecipient,
                 StateRoot |-> sc.StateRoot,
                 ReceiptsRoot |-> sc.ReceiptsRoot,
                 LogsBloom |-> lb.val,
                 Random |-> sc.Random,
                 Number |-> sc.Number,
                 GasLimit |-> sc.GasLimit,
                 GasUsed |-> sc.GasUsed,
                 Timestamp |-> sc.Timestamp,
                 ExtraData |-> xd.val,
                 BaseFeePerGas |-> bf.val,
                 BlockHash |-> sc.BlockHash,
                 Transactions |-> tx.val,
                 Withdrawals |-> wd.val,
                 BlobGasUsed |-> bg.val,
                 ExcessBlobGas |-> eb.val,
                 ExecutionWitness |-> ew.val]]

(***************************************************************************)
(* The converter and the code around it: the payload is converted, and     *)
(* from then on the holders of the canonical payload (side 0) and of the   *)
(* k-th wire payload (side k) write through what they hold.                *)
(***************************************************************************)
MutBytes == {170, 187}
MutNums == {0, 7}

MetricKeys == {<<Chain, e>> : e \in Endpoints}

Sides == 0..Len(wire)
Pl(k) == IF k = 0 THEN ed ELSE wire[k]

IdleCalls ==
    /\ pc = [p \in Callers |-> "idle"]
    /\ cap = [p \in Callers |-> ""]
    /\ rsp = [p \in Callers |-> ZeroPayloadStatus]
    /\ terr = [p \in Callers |-> NilErr]
    /\ ret = [p \in Callers |-> [resp |-> ZeroPayloadStatus, err |-> NoError]]
    /\ sent = [p \in Callers |-> <<>>]
    /\ warns = {}
    /\ latencyCnt = [k \in MetricKeys |-> 0]
    /\ errorCnt = [k \in MetricKeys |-> 0]

InitConv ==
    /\ IdleCalls
    /\ \E v \in PayloadVals :
         LET b == BuildPayload(<<>>, v)
         IN heap = b.heap /\ ed = b.val
    /\ wire = <<>>
    /\ nmut = 0

\* rethPayload := ConvertExecutableDataToRethPayloadV3(params)
Convert ==
    /\ Len(wire) < MaxConv
    /\ LET r == ConvertExecutableDataToRethPayloadV3(heap, ed)
       IN heap' = r.heap /\ wire' = Append(wire, r.val)
    /\ UNCHANGED <<ed, nmut, callVars>>

\* p.Transactions[i][j] = b
SetTxByte(k) ==
    \E i \in 1..Pl(k).Transactions.len, b \in MutBytes :
        /\ Len(wire) >= 1 /\ nmut < MaxMut
        /\ LET tx == Elems(heap, Pl(k).Transactions)[i]
           IN /\ tx.len >= 1
              /\ heap[tx.ptr][1] # b
              /\ heap' = [heap EXCEPT ![tx.ptr][1] = b]
        /\ nmut' = nmut + 1
        /\ UNCHANGED <<ed, wire, callVars>>

\* p.Transactions[i] = nil, or = []byte{b}
SetTxElem(k) ==
    \E i \in 1..Pl(k).Transactions.len,
       v \in {[isNil |-> TRUE, bytes |-> <<>>], [isNil |-> FALSE, bytes |-> <<187>>]} :
        /\ Len(wire) >= 1 /\ nmut < MaxMut
        /\ LET new == BuildBytes(heap, v)
           IN /\ new.val # Elems(heap, Pl(k).Transactions)[i]
              /\ heap' = [new.heap EXCEPT ![Pl(k).Transactions.ptr][i] = new.val]
        /\ nmut' = nmut + 1
        /\ UNCHANGED <<ed, wire, callVars>>

\* p.LogsBloom[j] = b, p.ExtraData[j] = b
SetBytesField(k) ==
    \E f \in {"LogsBloom", "ExtraData"}, b \in MutBytes :
        /\ Len(wire) >= 1 /\ nmut < MaxMut
        /\ Pl(k)[f].len >= 1
        /\ heap[Pl(k)[f].ptr][1] # b
        /\ heap' = [heap EXCEPT ![Pl(k)[f].ptr][1] = b]
        /\ nmut' = nmut + 1
        /\ UNCHANGED <<ed, wire, callVars>>

\* p.BaseFeePerGas.SetUint64(v), *p.BlobGasUsed = v, *p.ExcessBlobGas = v, and a
\* write into *p.ExecutionWitness
SetPointee(k) ==
    \E f \in {"BaseFeePerGas", "BlobGasUsed", "ExcessBlobGas", "ExecutionWitness"},
       v \in MutNums :
        /\ Len(wire) >= 1 /\ nmut < MaxMut
        /\ Pl(k)[f] # NilAddr
        /\ heap[Pl(k)[f]].val # v
        /\ heap' = [heap EXCEPT ![Pl(k)[f]].val = v]
        /\ nmut' = nmut + 1
        /\ UNCHANGED <<ed, wire, callVars>>

\* p.Withdrawals[i].Amount = v
SetWithdrawalAmount(k) ==
    \E i \in 1..Pl(k).Withdrawals.len, v \in MutNums :
        /\ Len(wire) >= 1 /\ nmut < MaxMut
        /\ LET w == Elems(heap, Pl(k).Withdrawals)[i]
           IN /\ w # NilAddr
              /\ heap[w].val # v
              /\ heap' = [heap EXCEPT ![w].val = v]
        /\ nmut' = nmut + 1
        /\ UNCHANGED <<ed, wire, callVars>>

\* p.Withdrawals[i] = nil, or = &types.Withdrawal{Amount: v}
SetWithdrawalElem(k) ==
    \E i \in 1..Pl(k).Withdrawals.len,
       v \in {[present |-> FALSE, val |-> 0], [present |-> TRUE, val |-> 7]} :
        /\ Len(wire) >= 1 /\ nmut < MaxMut
        /\ LET new == BuildOptional(heap, v)
           IN /\ new.val # Elems(heap, Pl(k).Withdrawals)[i]
              /\ heap' = [new.heap EXCEPT ![Pl(k).Withdrawals.ptr][i] = new.val]
        /\ nmut' = nmut + 1
        /\ UNCHANGED <<ed, wire, callVars>>

\* p.Withdrawals = hdr: an assignment to the slice field of the struct
SetWithdrawalsHeader(k, hdr) ==
    IF k = 0
    THEN ed' = [ed EXCEPT !.Withdrawals = hdr] /\ UNCHANGED wire
    ELSE wire' = [wire EXCEPT ![k].Withdrawals = hdr] /\ UNCHANGED ed

\* p.Withdrawals = append(p.Withdrawals, &types.Withdrawal{Amount: v}): the
\* record goes into the spare capacity of the backing array when there is
\* some, and into a new array of twice the capacity otherwise.
AppendWithdrawal(k) ==
    \E v \in MutNums :
        /\ Len(wire) >= 1 /\ nmut < MaxMut
        /\ LET s == Pl(k).Withdrawals
               rec == Alloc(heap, [val |-> v])
               capacity == IF s.ptr = NilAddr THEN 0 ELSE Len(heap[s.ptr])
               grown == IF capacity = 0 THEN 1 ELSE 2 * capacity
           IN IF s.len < capacity
              THEN /\ SetWithdrawalsHeader(k, [ptr |-> s.ptr, len |-> s.len + 1])
                   /\ heap' = [rec.heap EXCEPT ![s.ptr][s.len + 1] = rec.val]
              ELSE /\ SetWithdrawalsHeader(k, [ptr |-> Len(rec.heap) + 1,
                                               len |-> s.len + 1])
                   /\ heap' = Append(rec.heap,
                                     [i \in 1..grown |->
                                        IF i <= s.len THEN Elems(heap, s)[i]
                                        ELSE IF i = s.len + 1 THEN rec.val
                                        ELSE NilAddr])
        /\ nmut' = nmut + 1
        /\ UNCHANGED callVars

\* p.Withdrawals = append(p.Withdrawals[:i], p.Withdrawals[i+1:]...): the
\* elements after i move down by one within the backing array.
RemoveWithdrawal(k) ==
    \E i \in 1..Pl(k).Withdrawals.len :
        /\ Len(wire) >= 1 /\ nmut < MaxMut
        /\ LET s == Pl(k).Withdrawals
           IN /\ SetWithdrawalsHeader(k, [ptr |-> s.ptr, len |-> s.len - 1])
              /\ heap' = [heap EXCEPT ![s.ptr] =
                            [j \in 1..Len(@) |-> IF i <= j /\ j < s.len THEN @[j + 1] ELSE @[j]]]
        /\ nmut' = nmut + 1
        /\ UNCHANGED callVars

\* p.Number = v: an assignment to a scalar field of the struct
SetScalar(k) ==
    \E f \in {"Number"}, v \in MutNums :
        /\ Len(wire) >= 1 /\ nmut < MaxMut
        /\ Pl(k)[f] # v
        /\ IF k = 0
           THEN ed' = [ed EXCEPT ![f] = v] /\ UNCHANGED wire
           ELSE wire' = [wire EXCEPT ![k][f] = v] /\ UNCHANGED ed
        /\ nmut' = nmut + 1
        /\ UNCHANGED <<heap, callVars>>

\* Any write through side k.
Mutate(k) ==
    \/ SetTxByte(k)
    \/ SetTxElem(k)
    \/ SetBytesField(k)
    \/ SetPointee(k)
    \/ SetWithdrawalAmount(k)
    \/ SetWithdrawalElem(k)
    \/ AppendWithdrawal(k)
    \/ RemoveWithdrawal(k)
    \/ SetScalar(k)

NextConv ==
    \/ Convert
    \/ \E k \in Sides : SetTxByte(k)
    \/ \E k \in Sides : SetTxElem(k)
    \/ \E k \in Sides : SetBytesField(k)
    \/ \E k \in Sides : SetPointee(k)
    \/ \E k \in Sides : SetWithdrawalAmount(k)
    \/ \E k \in Sides : SetWithdrawalElem(k)
    \/ \E k \in Sides : AppendWithdrawal(k)
    \/ \E k \in Sides : RemoveWithdrawal(k)
    \/ \E k \in Sides : SetScalar(k)

SpecConv == InitConv /\ [][NextConv]_vars

\* The converter alone, applied to every payload of the input set.
InitPure ==
    /\ IdleCalls
    /\ \E v \in AllPayloadVals :
         LET b == BuildPayload(<<>>, v)
         IN heap = b.heap /\ ed = b.val
    /\ wire = <<>>
    /\ nmut = 0

NextPure == Convert

SpecPure == InitPure /\ [][NextPure]_vars

\* The converter and the writes to transactions, on the payloads that set
\* nothing but transactions.
InitTx ==
    /\ IdleCalls
    /\ \E v \in {u \in AllPayloadVals : SetGroups(u) \subseteq {"txs"}} :
         LET b == BuildPayload(<<>>, v)
         IN heap = b.heap /\ ed = b.val
    /\ wire = <<>>
    /\ nmut = 0

NextTx ==
    \/ Convert
    \/ \E k \in Sides : SetTxByte(k)
    \/ \E k \in Sides : SetTxElem(k)

SpecTx == InitTx /\ [][NextTx]_vars

\* The converter and the writes to withdrawals, on the payloads that set
\* nothing but withdrawals and the base fee.
InitWd ==
    /\ IdleCalls
    /\ \E v \in {u \in AllPayloadVals : SetGroups(u) \subseteq {"wds", "baseFee"}} :
         LET b == BuildPayload(<<>>, v)
         IN heap = b.heap /\ ed = b.val
    /\ wire = <<>>
    /\ nmut = 0

NextWd ==
    \/ Convert
    \/ \E k \in Sides : SetWithdrawalAmount(k)
    \/ \E k \in Sides : SetWithdrawalElem(k)
    \/ \E k \in Sides : AppendWithdrawal(k)
    \/ \E k \in Sides : RemoveWithdrawal(k)

SpecWd == InitWd /\ [][NextWd]_vars

(***************************************************************************)
(* The capabilities. Each caller p is a goroutine using the one client.    *)
(***************************************************************************)
\* The payloads handed to NewPayloadV3: the zero payload and the payload of
\* two transactions 0xAA and 0xBB.
CallPayloadVals ==
    {v \in PayloadVals :
        \/ SetGroups(v) = {}
        \/ /\ SetGroups(v) = {"txs"}
           /\ v.Transactions.elems = <<[isNil |-> FALSE, bytes |-> <<170>>],
                                       [isNil |-> FALSE, bytes |-> <<187>>]>>}

Init ==
    /\ IdleCalls
    /\ \E v \in CallPayloadVals :
         LET b == BuildPayload(<<>>, v)
         IN heap = b.heap /\ ed = b.val
    /\ wire = <<>>
    /\ nmut = 0

\* The handler up to and including the request of CallContext going out.
Invoke(p, capability, request) ==
    /\ pc' = [pc EXCEPT ![p] = "awaitRPC"]
    /\ cap' = [cap EXCEPT ![p] = capability]
    /\ sent' = [sent EXCEPT ![p] = Append(@, request)]
    /\ UNCHANGED <<rsp, terr, ret, warns, latencyCnt, errorCnt, convVars>>

\* The handler of a client that keeps the pair it returned last for each
\* capability and returns it again to the next call of that capability.
CompleteCached(p, endpoint, resp, err, o) ==
    /\ pc' = [pc EXCEPT ![p] = "returned"]
    /\ rsp' = [rsp EXCEPT ![p] = resp]
    /\ terr' = [terr EXCEPT ![p] = err]
    /\ ret' = [ret EXCEPT ![p] =
                  IF \E q \in Callers \ {p} : pc[q] = "returned" /\ cap[q] = cap[p]
                  THEN ret[CHOOSE q \in Callers \ {p} :
                                pc[q] = "returned" /\ cap[q] = cap[p]]
                  ELSE [resp |-> o.resp, err |-> o.err]]
    /\ warns' = warns \cup o.warn
    /\ errorCnt' = [errorCnt EXCEPT ![<<Chain, endpoint>>] = @ + o.incError]
    /\ latencyCnt' = [latencyCnt EXCEPT ![<<Chain, endpoint>>] = @ + 1]
    /\ UNCHANGED <<cap, sent, convVars>>

\* The handler sending the request once more when the call came back with a
\* transport error and no valid status.
CompleteResend(p, endpoint, resp, err, o) ==
    /\ pc' = [pc EXCEPT ![p] = "returned"]
    /\ rsp' = [rsp EXCEPT ![p] = resp]
    /\ terr' = [terr EXCEPT ![p] = err]
    /\ ret' = [ret EXCEPT ![p] = [resp |-> o.resp, err |-> o.err]]
    /\ warns' = warns \cup o.warn
    /\ errorCnt' = [errorCnt EXCEPT ![<<Chain, endpoint>>] = @ + o.incError]
    /\ latencyCnt' = [latencyCnt EXCEPT ![<<Chain, endpoint>>] = @ + 1]
    /\ sent' = [sent EXCEPT ![p] = IF o.err.kind = "wrap" THEN Append(@, @[1]) ELSE @]
    /\ UNCHANGED <<cap, convVars>>

\* The handler with the latency observed at the end of the success path
\* instead of by a deferred call.
CompleteLatencyNotDeferred(p, endpoint, resp, err, o) ==
    /\ pc' = [pc EXCEPT ![p] = "returned"]
    /\ rsp' = [rsp EXCEPT ![p] = resp]
    /\ terr' = [terr EXCEPT ![p] = err]
    /\ ret' = [ret EXCEPT ![p] = [resp |-> o.resp, err |-> o.err]]
    /\ warns' = warns \cup o.warn
    /\ errorCnt' = [errorCnt EXCEPT ![<<Chain, endpoint>>] = @ + o.incError]
    /\ latencyCnt' = [latencyCnt EXCEPT ![<<Chain, endpoint>>] =
                         IF o.err = NoError THEN @ + 1 ELSE @]
    /\ UNCHANGED <<cap, sent, convVars>>

\* The handler from CallContext's return to its own: the outcome o is
\* returned, its warning logged, incError run if it says so, and the deferred
\* latency observation made.
Complete(p, endpoint, resp, err, o) ==
    /\ pc' = [pc EXCEPT ![p] = "returned"]
    /\ rsp' = [rsp EXCEPT ![p] = resp]
    /\ terr' = [terr EXCEPT ![p] = err]
    /\ ret' = [ret EXCEPT ![p] = [resp |-> o.resp, err |-> o.err]]
    /\ warns' = warns \cup o.warn
    /\ errorCnt' = [errorCnt EXCEPT ![<<Chain, endpoint>>] = @ + o.incError]
    /\ latencyCnt' = [latencyCnt EXCEPT ![<<Chain, endpoint>>] = @ + 1]
    /\ UNCHANGED <<cap, sent, convVars>>

\* The wire payload is local to the call: the request carries its value and
\* nothing keeps its storage.
NewPayloadV3Call(p) ==
    /\ pc[p] = "idle"
    /\ LET rethPayload == ConvertExecutableDataToRethPayloadV3(heap, ed)
       IN Invoke(p, "NewPayloadV3",
                 [method |-> newPayloadV3,
                  params |-> PayloadVal(rethPayload.heap, rethPayload.val)])

NewPayloadV3Return(p) ==
    /\ pc[p] = "awaitRPC" /\ cap[p] = "NewPayloadV3"
    /\ \E resp \in PayloadStatuses, err \in TransportErrs :
         Complete(p, NewPayloadEndpoint, resp, err, NewPayloadV3Outcome(resp, err))

ForkchoiceUpdatedV3Call(p) ==
    /\ pc[p] = "idle"
    /\ Invoke(p, "ForkchoiceUpdatedV3",
              [method |-> forkchoiceUpdatedV3, params |-> "update, payloadAttributes"])

ForkchoiceUpdatedV3Return(p) ==
    /\ pc[p] = "awaitRPC" /\ cap[p] = "ForkchoiceUpdatedV3"
    /\ \E resp \in ForkChoiceResponses, err \in TransportErrs :
         Complete(p, ForkchoiceEndpoint, resp, err, ForkchoiceUpdatedV3Outcome(resp, err))

GetPayloadV3Call(p) ==
    /\ pc[p] = "idle"
    /\ Invoke(p, "GetPayloadV3", [method |-> getPayloadV3, params |-> "payloadID"])

GetPayloadV3Return(p) ==
    /\ pc[p] = "awaitRPC" /\ cap[p] = "GetPayloadV3"
    /\ \E resp \in Envelopes, err \in TransportErrs :
         Complete(p, GetPayloadEndpoint, resp, err, GetPayloadV3Outcome(resp, err))

Next ==
    \/ \E p \in Callers : NewPayloadV3Call(p)
    \/ \E p \in Callers : NewPayloadV3Return(p)
    \/ \E p \in Callers : ForkchoiceUpdatedV3Call(p)
    \/ \E p \in Callers : ForkchoiceUpdatedV3Return(p)
    \/ \E p \in Callers : GetPayloadV3Call(p)
    \/ \E p \in Callers : GetPayloadV3Return(p)

Spec == Init /\ [][Next]_vars

(***************************************************************************)
(* Status reconciliation: the properties of the returned pair.             *)
(***************************************************************************)
\* The valid-status domain of each capability that has one (section 4.4).
ValidDomain(capability) ==
    IF capability = "NewPayloadV3" THEN {VALID, INVALID, SYNCING, ACCEPTED}
    ELSE {VALID, INVALID, SYNCING}

StatusCaps == {"NewPayloadV3", "ForkchoiceUpdatedV3"}

\* Caller p's call of a capability with a status domain has returned.
Reconciled(p) == pc[p] = "returned" /\ cap[p] \in StatusCaps

\* The status CallContext decoded for p's call.
DecodedStatus(p) ==
    IF cap[p] = "NewPayloadV3" THEN rsp[p].Status ELSE rsp[p].PayloadStatus.Status

InDomain(p) == DecodedStatus(p) \in ValidDomain(cap[p])

ProtocolViolationMsg == "nil error and unknown status"

\* C1: for NewPayloadV3 and ForkchoiceUpdatedV3, whenever the decoded status is
\* in the capability's valid domain, with any transport error (nil or not), the
\* call returns the decoded response with that status and a nil error; a
\* non-nil transport error is logged as a warning and not returned.
C1_InDomainSucceeds ==
    \A p \in Callers :
        (Reconciled(p) /\ InDomain(p)) =>
            /\ ret[p].err = NoError
            /\ ret[p].resp = rsp[p]
            /\ terr[p] # NilErr =>
                 \E w \in warns : w.err = terr[p] /\ w.status = DecodedStatus(p)

\* Scenario A, and its like for ForkchoiceUpdatedV3: SYNCING with a transport
\* error has been returned as success by both capabilities.
C1_Witness ==
    \E p, q \in Callers :
        /\ Reconciled(p) /\ cap[p] = "NewPayloadV3"
        /\ Reconciled(q) /\ cap[q] = "ForkchoiceUpdatedV3"
        /\ DecodedStatus(p) = SYNCING /\ terr[p] = "connection refused"
        /\ DecodedStatus(q) = SYNCING /\ terr[q] = "context canceled"
        /\ ret[p].err = NoError /\ ret[q].err = NoError

\* C2: for NewPayloadV3 and ForkchoiceUpdatedV3, whenever the decoded status is
\* outside the valid domain (empty, unknown, or ACCEPTED for
\* ForkchoiceUpdatedV3) and the transport error is nil, the call fails with the
\* "nil error and unknown status" error, which is no wrapped transport error.
C2_OutOfDomainNilErrFails ==
    \A p \in Callers :
        (Reconciled(p) /\ ~InDomain(p) /\ terr[p] = NilErr) =>
            /\ ret[p].err # NoError
            /\ ret[p].err.kind = "new"
            /\ ret[p].err.msg = ProtocolViolationMsg
            /\ ret[p].err.cause = NilErr

\* Scenario B: ForkchoiceUpdatedV3 got ACCEPTED with no transport error and
\* failed, while NewPayloadV3 failed on a status it never decoded.
C2_Witness ==
    \E p, q \in Callers :
        /\ Reconciled(p) /\ cap[p] = "ForkchoiceUpdatedV3"
        /\ DecodedStatus(p) = ACCEPTED /\ terr[p] = NilErr
        /\ ret[p].err.msg = ProtocolViolationMsg
        /\ Reconciled(q) /\ cap[q] = "NewPayloadV3"
        /\ DecodedStatus(q) = "" /\ terr[q] = NilErr
        /\ ret[q].err.msg = ProtocolViolationMsg

\* C3: for NewPayloadV3 and ForkchoiceUpdatedV3, whenever the decoded status is
\* outside the valid domain and the transport error is non-nil (a cancellation
\* with nothing decoded included), the call fails with an error that wraps that
\* transport error; it is neither success nor the protocol-status failure.
C3_OutOfDomainErrWrapped ==
    \A p \in Callers :
        (Reconciled(p) /\ ~InDomain(p) /\ terr[p] # NilErr) =>
            /\ ret[p].err # NoError
            /\ ret[p].err.kind = "wrap"
            /\ ret[p].err.cause = terr[p]
            /\ ret[p].err.msg # ProtocolViolationMsg

\* A cancelled ForkchoiceUpdatedV3 with nothing decoded, and a refused
\* NewPayloadV3 with an unknown status, have both returned the wrapped error.
C3_Witness ==
    \E p, q \in Callers :
        /\ Reconciled(p) /\ cap[p] = "ForkchoiceUpdatedV3"
        /\ rsp[p] = ZeroForkChoiceResponse /\ terr[p] = "context canceled"
        /\ ret[p].err.cause = "context canceled"
        /\ Reconciled(q) /\ cap[q] = "NewPayloadV3"
        /\ DecodedStatus(q) = "valid" /\ terr[q] = "connection refused"
        /\ ret[q].err.cause = "connection refused"

\* C4: GetPayloadV3 succeeds exactly when the transport error is nil: with a
\* transport error it returns a nil envelope and an error wrapping it, whatever
\* was decoded; without one it returns the decoded envelope and a nil error.
C4_GetPayloadSucceedsIffNoErr ==
    \A p \in Callers :
        (pc[p] = "returned" /\ cap[p] = "GetPayloadV3") =>
            /\ ret[p].err = NoError <=> terr[p] = NilErr
            /\ terr[p] # NilErr =>
                 /\ ret[p].resp = NilEnvelope
                 /\ ret[p].err.kind = "wrap"
                 /\ ret[p].err.cause = terr[p]
            /\ terr[p] = NilErr => ret[p].resp = EnvelopePtr(rsp[p])

\* Scenario D: GetPayloadV3 failed although a payload had been decoded, and
\* another GetPayloadV3 succeeded.
C4_Witness ==
    \E p, q \in Callers :
        /\ pc[p] = "returned" /\ cap[p] = "GetPayloadV3"
        /\ rsp[p].ExecutionPayload # NilPtr /\ terr[p] # NilErr
        /\ ret[p].resp.isNil
        /\ pc[q] = "returned" /\ cap[q] = "GetPayloadV3"
        /\ terr[q] = NilErr /\ ~ret[q].resp.isNil

\* C5 as claimed: for NewPayloadV3 and ForkchoiceUpdatedV3, the error returned
\* for an out-of-domain status with a non-nil transport error carries the
\* observed status.
C5_WrappedErrorCarriesStatus ==
    \A p \in Callers :
        (Reconciled(p) /\ ~InDomain(p) /\ terr[p] # NilErr) =>
            <<"status", DecodedStatus(p)>> \in ret[p].err.attrs

\* C5 as the code has it: for NewPayloadV3 and ForkchoiceUpdatedV3, the error
\* returned for an out-of-domain status with a non-nil transport error wraps
\* the transport error under the capability's message and carries no status;
\* only the "nil error and unknown status" error carries the observed status.
C5_WrappedErrorWithoutStatus ==
    \A p \in Callers :
        (Reconciled(p) /\ ~InDomain(p)) =>
            IF terr[p] # NilErr
            THEN /\ ret[p].err.kind = "wrap"
                 /\ ret[p].err.cause = terr[p]
                 /\ ret[p].err.msg = (IF cap[p] = "NewPayloadV3" THEN "rpc new payload"
                                      ELSE "rpc forkchoice updated v3")
                 /\ ret[p].err.attrs = {}
            ELSE ret[p].err.attrs = {<<"status", DecodedStatus(p)>>}

\* Both kinds of failure have been returned for the same unknown status.
C5_Witness ==
    \E p, q \in Callers :
        /\ Reconciled(p) /\ Reconciled(q)
        /\ DecodedStatus(p) = "valid" /\ DecodedStatus(q) = "valid"
        /\ terr[p] # NilErr /\ ret[p].err.attrs = {}
        /\ terr[q] = NilErr /\ ret[q].err.attrs = {<<"status", "valid">>}

(***************************************************************************)
(* The converter: the properties of the wire payload.                      *)
(***************************************************************************)
\* The wire payload the step has just produced.
Produced == wire'[Len(wire')]

WireSides == 1..Len(wire)

\* The bytes of each transaction, nil and empty alike.
TxBytes(h, p) == [i \in 1..p.Transactions.len |-> TxVal(h, p).elems[i].bytes]

OptionalFields == {"BaseFeePerGas", "BlobGasUsed", "ExcessBlobGas"}

\* C6: a conversion gives wire transactions holding the bytes of the source's
\* transactions, index by index; after it, no write through the canonical
\* payload changes the transactions of any wire payload, and no write through
\* a wire payload changes the transactions of the canonical payload.
C6_TransactionsIndependent ==
    [][ /\ Convert => TxBytes(heap', Produced) = TxBytes(heap, ed)
        /\ Mutate(0) => \A k \in WireSides : TxVal(heap', wire'[k]) = TxVal(heap, wire[k])
        /\ (\E k \in WireSides : Mutate(k)) => TxVal(heap', ed') = TxVal(heap, ed)
      ]_vars

\* Scenario C: a wire payload holds the transactions 0xAA and 0xBB while the
\* canonical payload, written to since, holds two others.
C6_Witness ==
    /\ Len(wire) >= 1
    /\ nmut >= 1
    /\ TxBytes(heap, wire[1]) = <<(<<170>>), (<<187>>)>>
    /\ Len(TxBytes(heap, ed)) = 2
    /\ TxBytes(heap, ed)[1] = <<187>>

\* C7: after a conversion, no write through the canonical payload changes any
\* field of a wire payload, and no write through a wire payload changes any
\* field of the canonical payload.
C7_NoFieldShared ==
    [][ /\ Mutate(0) =>
              \A k \in WireSides : PayloadVal(heap', wire'[k]) = PayloadVal(heap, wire[k])
        /\ (\E k \in WireSides : Mutate(k)) =>
              PayloadVal(heap', ed') = PayloadVal(heap, ed)
      ]_vars

\* C8: a conversion keeps the presence of BaseFeePerGas, BlobGasUsed and
\* ExcessBlobGas: the wire field is nil exactly when the source field is, and a
\* present field points to storage allocated by the conversion, shared with no
\* other field, holding the source's value.
C8_OptionalPresenceKept ==
    [][ Convert =>
          \A f \in OptionalFields :
              /\ Produced[f] = NilAddr <=> ed[f] = NilAddr
              /\ ed[f] # NilAddr =>
                   /\ Produced[f] \in (Len(heap) + 1)..Len(heap')
                   /\ heap'[Produced[f]].val = heap[ed[f]].val
                   /\ \A g \in OptionalFields \ {f} : Produced[g] # Produced[f]
      ]_vars

\* A present zero base fee was converted to a present zero, next to a blob-gas
\* field that was absent and stayed absent.
C8_Witness ==
    /\ Len(wire) >= 1
    /\ nmut = 0
    /\ ed.BaseFeePerGas # NilAddr /\ heap[ed.BaseFeePerGas].val = 0
    /\ wire[1].BaseFeePerGas # NilAddr /\ heap[wire[1].BaseFeePerGas].val = 0
    /\ ed.BlobGasUsed = NilAddr /\ wire[1].BlobGasUsed = NilAddr

\* C9: a conversion never gives a nil transactions or withdrawals slice: the
\* wire slice is non-nil and has the length of the source's, which is 0 for a
\* nil or empty source.
C9_SlicesNeverNil ==
    [][ Convert =>
          \A f \in {"Transactions", "Withdrawals"} :
              /\ Produced[f].ptr # NilAddr
              /\ Produced[f].len = ed[f].len
              /\ (ed[f].ptr = NilAddr \/ ed[f].len = 0) => Elems(heap', Produced[f]) = <<>>
      ]_vars

\* A payload with nil transactions and one withdrawal was converted.
C9_Witness ==
    /\ Len(wire) >= 1
    /\ nmut = 0
    /\ ed.Transactions.ptr = NilAddr
    /\ wire[1].Transactions.ptr # NilAddr
    /\ ed.Withdrawals.len = 1 /\ wire[1].Withdrawals.len = 1

\* C10: the conversion is defined for every payload reached (it yields a
\* value for each field of the struct), and a conversion leaves the canonical
\* payload as it was, gives a header equal field by field to the source's, and
\* gives a payload equal in value to every earlier conversion of the same
\* (unwritten) payload.
C10_DeterministicFieldByField ==
    [][ /\ DOMAIN ConvertExecutableDataToRethPayloadV3(heap, ed).val = DOMAIN ed
        /\ Convert =>
             /\ ed' = ed
             /\ PayloadVal(heap', ed') = PayloadVal(heap, ed)
             /\ HeaderVal(heap', Produced) = HeaderVal(heap, ed)
             /\ nmut = 0 =>
                  \A k \in WireSides :
                      PayloadVal(heap', wire'[k]) = PayloadVal(heap', Produced)
      ]_vars

\* The same payload, with a base fee and two transactions, was converted
\* twice, into different storage and to the same value.
C10_Witness ==
    /\ Len(wire) = 2
    /\ nmut = 0
    /\ ed.BaseFeePerGas # NilAddr
    /\ ed.Transactions.len = 2
    /\ wire[1] # wire[2]
    /\ PayloadVal(heap, wire[1]) = PayloadVal(heap, wire[2])
    /\ HeaderVal(heap, wire[2]) = HeaderVal(heap, ed)

(***************************************************************************)
(* Instrumentation, requests and independence of the calls.                *)
(***************************************************************************)
\* The endpoint constant each capability declares.
EndpointOf(capability) ==
    CASE capability = "NewPayloadV3" -> NewPayloadEndpoint
      [] capability = "ForkchoiceUpdatedV3" -> ForkchoiceEndpoint
      [] capability = "GetPayloadV3" -> GetPayloadEndpoint

\* The callers whose call of the capability with endpoint e has returned.
ReturnedAt(e) == {p \in Callers : pc[p] = "returned" /\ EndpointOf(cap[p]) = e}

\* C11: for each of the three capabilities, the latency observations under
\* <<chain, endpoint>> number the invocations that have returned (one each,
\* none for a call still waiting), the error counter under <<chain, endpoint>>
\* numbers those that returned a non-nil error (none for a success, a
\* swallowed transport error included), and no other label is used.
C11_MetricsOncePerCall ==
    /\ DOMAIN latencyCnt = {<<Chain, e>> : e \in Endpoints}
    /\ DOMAIN errorCnt = {<<Chain, e>> : e \in Endpoints}
    /\ \A e \in Endpoints :
         /\ latencyCnt[<<Chain, e>>] = Cardinality(ReturnedAt(e))
         /\ errorCnt[<<Chain, e>>] =
              Cardinality({p \in ReturnedAt(e) : ret[p].err # NoError})

\* NewPayloadV3 returned twice, once swallowing a transport error and once
\* failing: two latency observations and one error counted.
C11_Witness ==
    \E p, q \in Callers :
        /\ p # q
        /\ pc[p] = "returned" /\ cap[p] = "NewPayloadV3"
        /\ terr[p] # NilErr /\ ret[p].err = NoError
        /\ pc[q] = "returned" /\ cap[q] = "NewPayloadV3"
        /\ ret[q].err # NoError
        /\ latencyCnt[<<Chain, NewPayloadEndpoint>>] = 2
        /\ errorCnt[<<Chain, NewPayloadEndpoint>>] = 1

\* The method constant each capability passes to CallContext.
MethodOf(capability) ==
    CASE capability = "NewPayloadV3" -> newPayloadV3
      [] capability = "ForkchoiceUpdatedV3" -> forkchoiceUpdatedV3
      [] capability = "GetPayloadV3" -> getPayloadV3

\* C12: an invocation of NewPayloadV3, ForkchoiceUpdatedV3 or GetPayloadV3 has
\* issued exactly one request, to the method of its capability, from the
\* moment it waits for the response on; the step that follows the response is
\* the return, whatever the response and the transport error were, and neither
\* that step nor anything after it sends a request for that invocation.
C12_OneRequestNoRetry ==
    [][ \A p \in Callers :
          /\ pc'[p] = "idle" => sent'[p] = <<>>
          /\ pc'[p] # "idle" =>
               /\ Len(sent'[p]) = 1
               /\ sent'[p][1].method = MethodOf(cap'[p])
          /\ (pc[p] = "awaitRPC" /\ pc'[p] # "awaitRPC") =>
               /\ pc'[p] = "returned"
               /\ sent'[p] = sent[p]
               /\ cap'[p] = cap[p]
          /\ pc[p] = "returned" => (pc'[p] = "returned" /\ sent'[p] = sent[p])
      ]_vars

\* ForkchoiceUpdatedV3 failed on a transport error and GetPayloadV3 failed on
\* one too, each having sent its one request.
C12_Witness ==
    \E p, q \in Callers :
        /\ pc[p] = "returned" /\ cap[p] = "ForkchoiceUpdatedV3"
        /\ ret[p].err.kind = "wrap"
        /\ Len(sent[p]) = 1 /\ sent[p][1].method = forkchoiceUpdatedV3
        /\ pc[q] = "returned" /\ cap[q] = "GetPayloadV3"
        /\ ret[q].err.kind = "wrap"
        /\ Len(sent[q]) = 1 /\ sent[q][1].method = getPayloadV3

\* What the capability returns for (resp, err) when it is the only call made.
OutcomeAlone(capability, resp, err) ==
    LET o == CASE capability = "NewPayloadV3" -> NewPayloadV3Outcome(resp, err)
               [] capability = "ForkchoiceUpdatedV3" -> ForkchoiceUpdatedV3Outcome(resp, err)
               [] capability = "GetPayloadV3" -> GetPayloadV3Outcome(resp, err)
    IN [resp |-> o.resp, err |-> o.err]

\* What belongs to caller p's invocation.
CallState(p) == <<pc[p], cap[p], rsp[p], terr[p], ret[p], sent[p]>>

\* C13: with callers interleaved in every order on the one client, the pair
\* each invocation returns is the pair its capability returns for that
\* invocation's own decoded response and transport error when run alone; a
\* step of one invocation changes nothing of another, nor the payload the
\* callers hold; and the client imposes no order: whatever the other callers
\* do, an idle caller can invoke a capability (ForkchoiceUpdatedV3 and
\* GetPayloadV3 are the ones tested; NewPayloadV3Call has the same guard) and
\* a waiting call can return.
C13_NoCrossCallState ==
    /\ [](\A p \in Callers :
            /\ pc[p] = "returned" => ret[p] = OutcomeAlone(cap[p], rsp[p], terr[p])
            /\ pc[p] = "idle" =>
                 /\ ENABLED ForkchoiceUpdatedV3Call(p)
                 /\ ENABLED GetPayloadV3Call(p)
            /\ pc[p] = "awaitRPC" =>
                 ENABLED (\/ NewPayloadV3Return(p)
                          \/ ForkchoiceUpdatedV3Return(p)
                          \/ GetPayloadV3Return(p)))
    /\ [][ /\ \E p \in Callers :
                \A q \in Callers \ {p} : CallState(q)' = CallState(q)
            /\ UNCHANGED <<heap, ed>>
          ]_vars

\* Two calls of NewPayloadV3 were under way at once on the one client; one
\* has returned a failure on a transport error while the other still waits.
C13_Witness ==
    \E p, q \in Callers :
        /\ pc[p] = "returned" /\ cap[p] = "NewPayloadV3"
        /\ terr[p] = "connection refused" /\ ret[p].err.kind = "wrap"
        /\ pc[q] = "awaitRPC" /\ cap[q] = "NewPayloadV3"

\* The decision procedure of section 4.4 of the specification, by outcome
\* class: in-domain, else a transport error, else a protocol violation.
reconcile(status, transportErr, domain) ==
    IF status \in domain THEN "success"
    ELSE IF transportErr # NilErr THEN "transportFailure"
    ELSE "protocolViolation"

\* The class of a returned pair: nil error, errors.Wrap of the transport
\* error, or the errors.New of an unknown status.
OutcomeClass(r) ==
    IF r.err = NoError THEN "success"
    ELSE IF r.err.kind = "wrap" THEN "transportFailure"
    ELSE "protocolViolation"

\* C14: the pair NewPayloadV3 returns and the pair ForkchoiceUpdatedV3 returns
\* are both of the class reconcile gives for the decoded status, the transport
\* error and the capability's valid domain; so on the same status and
\* transport error the two capabilities return the same class, except on
\* ACCEPTED, where NewPayloadV3 succeeds and ForkchoiceUpdatedV3 fails.
C14_OneReconcile ==
    /\ \A p \in Callers :
         Reconciled(p) =>
            OutcomeClass(ret[p]) = reconcile(DecodedStatus(p), terr[p], ValidDomain(cap[p]))
    /\ \A p, q \in Callers :
         ( /\ Reconciled(p) /\ cap[p] = "NewPayloadV3"
           /\ Reconciled(q) /\ cap[q] = "ForkchoiceUpdatedV3"
           /\ DecodedStatus(p) = DecodedStatus(q)
           /\ terr[p] = terr[q] ) =>
            IF DecodedStatus(p) = ACCEPTED
            THEN OutcomeClass(ret[p]) = "success" /\ OutcomeClass(ret[q]) # "success"
            ELSE OutcomeClass(ret[p]) = OutcomeClass(ret[q])

\* Both capabilities got ACCEPTED with the same transport error: NewPayloadV3
\* succeeded and ForkchoiceUpdatedV3 returned the transport failure.
C14_Witness ==
    \E p, q \in Callers :
        /\ Reconciled(p) /\ cap[p] = "NewPayloadV3"
        /\ Reconciled(q) /\ cap[q] = "ForkchoiceUpdatedV3"
        /\ DecodedStatus(p) = ACCEPTED /\ DecodedStatus(q) = ACCEPTED
        /\ terr[p] = "connection refused" /\ terr[q] = "connection refused"
        /\ OutcomeClass(ret[p]) = "success"
        /\ OutcomeClass(ret[q]) = "transportFailure"

(***************************************************************************)
(* The converter: the withdrawals of the wire payload.                     *)
(***************************************************************************)
\* The pointers a payload's withdrawals slice holds, in order.
WdPtrs(h, p) == Elems(h, p.Withdrawals)

ZeroResponse(capability) ==
    IF capability = "NewPayloadV3" THEN ZeroPayloadStatus ELSE ZeroForkChoiceResponse

\* C16: whenever NewPayloadV3 or ForkchoiceUpdatedV3 returns a non-nil error,
\* the response returned with it is the zero value (empty status, no
\* latest-valid-hash, no validation error, no payload identifier), whatever
\* was decoded; whenever it returns a nil error, the response returned is the
\* decoded response as it was decoded, and its status is in the capability's
\* valid domain.
C16_NoMixedOutcome ==
    \A p \in Callers :
        Reconciled(p) =>
            IF ret[p].err # NoError
            THEN ret[p].resp = ZeroResponse(cap[p])
            ELSE /\ ret[p].resp = rsp[p]
                 /\ InDomain(p)

\* NewPayloadV3 decoded an unknown status with a hash and a validation error
\* and returned the zero value with its error; ForkchoiceUpdatedV3 decoded a
\* VALID response with a payload identifier and returned it whole.
C16_Witness ==
    \E p, q \in Callers :
        /\ Reconciled(p) /\ cap[p] = "NewPayloadV3"
        /\ rsp[p] = [Status |-> "valid", LatestValidHash |-> "0xh1",
                     ValidationError |-> "bad block"]
        /\ ret[p].err # NoError /\ ret[p].resp = ZeroPayloadStatus
        /\ Reconciled(q) /\ cap[q] = "ForkchoiceUpdatedV3"
        /\ rsp[q].PayloadStatus.Status = VALID /\ rsp[q].PayloadID = "0x01"
        /\ ret[q].err = NoError /\ ret[q].resp = rsp[q]

====
